---- MODULE Spec2Model ----
(***************************************************************************)
(* sshx tunnel: the server's control handler, registry and tunnel driver   *)
(* (server/src/main.rs, auth.rs, shared.rs) and the client's run and       *)
(* data-connection tasks (client/src/main.rs, auth.rs, shared.rs).         *)
(*                                                                         *)
(* One action per atomic section of a task: the code between two await     *)
(* points, or one DashMap operation where another task's operation on the  *)
(* same map may fall in between (the runtime is multi-threaded).           *)
(***************************************************************************)
EXTENDS Integers, Sequences, FiniteSets, TLC

\* ---------------------------------------------------------------- bounds
MaxConns == 3        \* control-port connections the server accepts
MaxInbound == 2      \* connections made to public listeners
MaxQueue == 3        \* frames or bytes a socket holds in one direction
MaxPort == 2001      \* highest tunnel port of the modelled range
MaxAge == 2          \* clock ticks a reap timer is followed for
TickSecs == 10       \* seconds per clock tick
MaxPeerBytes == 2    \* bytes an inbound peer writes
MaxLocalBytes == 2   \* bytes the local service writes
MinSubLen == 468     \* shortest long subdomain a client is started with
MaxSubLen == 472     \* longest subdomain a client is started with
MaxReads == 2        \* reads of the socket one frame arrives in

\* ------------------------------------------------------ program constants
MIN_PORT == 2000         \* Cli::min_port default
MAX_ATTEMPTS == 150      \* claim_port: for _ in 0..150
REAP_SECS == 10          \* drive_tunnel: sleep(Duration::from_secs(10))
CONTROL_PORT == 7835             \* server/src/shared.rs
CLIENT_CONTROL_PORT == 12267     \* client/src/shared.rs
MAX_FRAME == 512                 \* shared.rs: max_length of the codec

Conns == 1..MaxConns
Inbounds == 1..MaxInbound
Ids == 1..MaxInbound             \* Uuid::new_v4() values, never repeated
Ports == MIN_PORT..MaxPort
Subdomains == {"demo", "blog"}
Secrets == {"hunter2", "wrong"}
None == "None"                   \* Option::None
\* lengths of the subdomains of the byte-level runs: a short one, and those
\* whose Hello is about MAX_FRAME bytes long
SubLens == {4} \cup (MinSubLen..MaxSubLen)

VARIABLES
    cli,           \* the client's Cli: secret, subdomain, and whether the port it
                   \* dials on the server's host leads to the server's listener
    task,          \* per control connection: the client task at its other end
    loc,           \* per data connection: the socket to the local service
    auth,          \* State.auth: None or the server's secret
    others,        \* ports of the range that other programs hold
    subdomains,    \* State.subdomains: subdomain -> port
    pending,       \* State.pending: id -> parked inbound socket
    srv,           \* per control connection: the handle_control task
    conn,          \* per control connection: the client's end
    c2s,           \* per control connection: client -> server, not yet read
    s2c,           \* per control connection: server -> client, not yet read
    sent,          \* per control connection: frames the server wrote, Heartbeat left out
    inb,           \* per inbound connection: the socket on the public port
    nextId,        \* next fresh Uuid
    timers,        \* per id: the spawned reap task
    takers         \* per id: who got Some(..) from pending.remove(id)

vars == <<cli, task, loc, auth, others, subdomains, pending, srv, conn, c2s, s2c, sent, inb, nextId,
          timers, takers>>

\* ------------------------------------------------------------- map helpers
Put(f, k, v) == [x \in DOMAIN f \cup {k} |-> IF x = k THEN v ELSE f[x]]
Del(f, k) == [x \in DOMAIN f \ {k} |-> f[x]]

\* ------------------------------------------------------------- messages
\* ClientMsg
Hello(s) == [type |-> "Hello", subdomain |-> s]
Authenticate(t) == [type |-> "Authenticate", tag |-> t]
Accept(id) == [type |-> "Accept", id |-> id]
\* a frame that is not the JSON of any ClientMsg
Garbage == [type |-> "Garbage"]
\* a frame of more than MAX_FRAME bytes
TooLong == [type |-> "TooLong"]
\* ServerMsg
Challenge(n) == [type |-> "Challenge", nonce |-> n]
ServerHello(p) == [type |-> "ServerHello", public_port |-> p]
Heartbeat == [type |-> "Heartbeat"]
Connection(id) == [type |-> "Connection", id |-> id]
Error(r) == [type |-> "Error", reason |-> r]
\* one byte of the raw stream that follows the last frame
Byte(b) == [type |-> "Byte", val |-> b]

TakenMsg(s) == "subdomain '" \o s \o "' is already taken"
NoPortsMsg == "no free ports available"
InvalidSecretMsg == "invalid secret"
ExpectedAuthMsg == "expected Authenticate message"
TimedOutMsg == "handshake timed out"
ParseErrorMsg == "parse error"
MaxChunkMsg == "max chunk length exceeded"
IoErrorMsg == "io error"

\* ------------------------------------------------------------------ auth
\* Auth::new: key = SHA-256(secret), the HMAC-SHA256 key
AuthNew(secret) == [sha256 |-> secret]
\* a MAC that does not depend on the key
HmacKeyless(key, challenge) == [key |-> AuthNew(""), msg |-> challenge]

\* HMAC-SHA256 of the challenge under key
Hmac(key, challenge) == [key |-> key, msg |-> challenge]
\* hex::encode / hex::decode: decode fails on a string that is not hex
HexEncode(m) == [hex |-> TRUE, mac |-> m]
NotHex == [hex |-> FALSE, mac |-> Hmac(AuthNew(""), 0)]
HexDecode(t) == IF t.hex THEN [ok |-> TRUE, val |-> t.mac] ELSE [ok |-> FALSE]
\* Auth::answer
Answer(key, challenge) == HexEncode(Hmac(key, challenge))
\* a validate that only checks that the tag is hex
ValidateHexOnly(key, challenge, tag) == HexDecode(tag).ok

\* Auth::validate
Validate(key, challenge, tag) ==
    LET d == HexDecode(tag)
    IN  IF d.ok THEN d.val = Hmac(key, challenge) ELSE FALSE

\* ----------------------------------------------------------------- codec
IsFrame(x) == x.type # "Byte"
HasFrame(buf) == buf # <<>> /\ IsFrame(Head(buf))

\* Framed_::recv_timeout with read_buf = buf, the unread input wire, and eof
\* telling whether the other end is closed: the decoder first looks in
\* read_buf; otherwise one read takes any non-empty prefix of what has
\* arrived and the decoder looks again.
Recv(buf, wire, eof) ==
    LET Got(b, w) == [kind |-> IF Head(b) = Garbage THEN "parse"
                               ELSE IF Head(b) = TooLong THEN "toolong" ELSE "msg",
                      frame |-> Head(b), read_buf |-> Tail(b), wire |-> w]
    IN  IF HasFrame(buf) THEN {Got(buf, wire)}
        ELSE IF wire # <<>>
        THEN {LET b == buf \o SubSeq(wire, 1, n)
                  w == SubSeq(wire, n + 1, Len(wire))
              IN  IF HasFrame(b) THEN Got(b, w)
                  ELSE [kind |-> "timeout", frame |-> Garbage, read_buf |-> b, wire |-> w]
              : n \in 1..Len(wire)}
        ELSE {[kind |-> IF eof THEN "eof" ELSE "timeout",
               frame |-> Garbage, read_buf |-> buf, wire |-> wire]}

\* the server's recv_timeout on connection c
RecvTimeout(c) == Recv(srv[c].read_buf, c2s[c], conn[c].st = "closed")

\* Framed_::send on the server's end: fails when the peer has closed, waits
\* while the socket is full. What is sent stays on the wire until the client
\* program reads it; any other peer is taken to read it at once, and so is
\* the client of a Heartbeat, which its event loop reads and ignores.
IsClient(c) == conn[c].role \in {"run", "data"}
CanSend(c) == conn[c].st = "closed" \/ ~IsClient(c) \/ Len(s2c[c]) < MaxQueue
SendOk(c) == conn[c].st # "closed"
\* the wire and the log after the server sent frame m on c
Wire(c, m) ==
    IF SendOk(c) /\ IsClient(c) /\ m # Heartbeat
    THEN [s2c EXCEPT ![c] = Append(@, m)] ELSE s2c
Logged(c, m) ==
    IF SendOk(c) /\ m # Heartbeat THEN [sent EXCEPT ![c] = Append(@, m)] ELSE sent

\* ---------------------------------------------------------------- state
NoSrv == [pc |-> "idle", subdomain |-> "", challenge |-> 0, tag |-> NotHex,
          read_buf |-> <<>>, listener |-> 0, id |-> 0, inbound |-> 0,
          a2b |-> "", b2a |-> "", elapsed |-> -1,
          result |-> "", reason |-> "", got |-> "", attempts |-> 0]
NoConn == [st |-> "none", role |-> "peer", nsent |-> 0, first |-> ""]
NoInb == [st |-> "none", port |-> 0, peer |-> "open", rx |-> <<>>, tx |-> <<>>,
          eof |-> FALSE, nw |-> 0]
NoTimer == [st |-> "none", age |-> 0]
NoCli == [secret |-> None, subdomain |-> "", routed |-> FALSE]
NoTask == [pc |-> "idle", read_buf |-> <<>>, id |-> 0, a2b |-> "", b2a |-> "",
           result |-> "", reason |-> ""]
NoLoc == [st |-> "none", rx |-> <<>>, tx |-> <<>>, nw |-> 0]

\* the server's configuration, the peers that will connect to the control
\* port, in order, and how many will connect to public ports
Scenarios ==
    {[auth |-> None, others |-> {}, public |-> 1,
      roles |-> <<"registrant", "registrant">>],
     [auth |-> None, others |-> {}, public |-> 1,
      roles |-> <<"registrant", "acceptor", "acceptor">>],
     [auth |-> None, others |-> {}, public |-> 2,
      roles |-> <<"registrant", "acceptor">>],
     [auth |-> "hunter2", others |-> {}, public |-> 1,
      roles |-> <<"registrant", "rogue">>]}

ServerStart(sc) ==
    /\ auth = sc.auth
    /\ others = sc.others
    /\ conn = [c \in Conns |->
                 [NoConn EXCEPT !.role = IF c <= Len(sc.roles) THEN sc.roles[c] ELSE "off"]]
    /\ subdomains = <<>>
    /\ pending = <<>>
    /\ srv = [c \in Conns |-> NoSrv]
    /\ c2s = [c \in Conns |-> <<>>]
    /\ s2c = [c \in Conns |-> <<>>]
    /\ sent = [c \in Conns |-> <<>>]
    /\ inb = [i \in Inbounds |->
                [NoInb EXCEPT !.st = IF i <= sc.public THEN "none" ELSE "off"]]
    /\ nextId = 1
    /\ timers = [id \in Ids |-> NoTimer]
    /\ takers = [id \in Ids |-> {}]

Start(sc) ==
    /\ ServerStart(sc)
    /\ cli = NoCli
    /\ task = [c \in Conns |-> NoTask]
    /\ loc = [c \in Conns |-> NoLoc]

Init == \E sc \in Scenarios : Start(sc)

\* ------------------------------------------------- handle_control: start
\* TcpListener ports held by live handlers; a bind to one of them fails
BoundPorts == ({srv[c].listener : c \in Conns} \ {0}) \cup others

\* the handler task returns: ctrl, the listener (if any) and the locals are
\* dropped; what it logged or was sent stays
Return(c, result, reason) ==
    [srv EXCEPT ![c].pc = "done", ![c].result = result, ![c].reason = reason,
                ![c].listener = 0, ![c].read_buf = <<>>, ![c].a2b = "", ![c].b2a = ""]
\* connections waiting in a dropped listener's backlog are reset
DropListener(p) ==
    [i \in Inbounds |->
        IF p # 0 /\ inb[i].st = "backlog" /\ inb[i].port = p
        THEN [inb[i] EXCEPT !.st = "dropped"] ELSE inb[i]]

\* main: accept a control connection and spawn handle_control on it
Connect(c) ==
    /\ conn[c].st = "none" /\ conn[c].role # "off"
    /\ \A d \in Conns : d < c => conn[d].st # "none"
    /\ conn' = [conn EXCEPT ![c].st = "open"]
    /\ srv' = [srv EXCEPT ![c].pc = "start"]
    /\ UNCHANGED <<cli, task, loc, auth, others, subdomains, pending, c2s, s2c, sent, inb, nextId, timers, takers>>

\* a handler that skips the auth block
HandleStartNoAuth(c) ==
    /\ srv[c].pc = "start"
    /\ srv' = [srv EXCEPT ![c].pc = "ready"]
    /\ UNCHANGED <<cli, task, loc, auth, others, subdomains, pending, conn, c2s, s2c, sent,
                   inb, nextId, timers, takers>>

\* handle_control up to the first recv: with a secret, handshake_server sends
\* Challenge(Uuid::new_v4()); the nonce of connection c is c, fresh per handshake
HandleStart(c) ==
    /\ srv[c].pc = "start"
    /\ IF auth = None
       THEN /\ srv' = [srv EXCEPT ![c].pc = "ready"]
            /\ UNCHANGED <<s2c, sent>>
       ELSE /\ CanSend(c)
            /\ s2c' = Wire(c, Challenge(c))
            /\ sent' = Logged(c, Challenge(c))
            /\ srv' = IF SendOk(c)
                      THEN [srv EXCEPT ![c].pc = "auth", ![c].challenge = c]
                      ELSE Return(c, "err", IoErrorMsg)
    /\ UNCHANGED <<cli, task, loc, auth, others, subdomains, pending, conn, c2s, inb, nextId, timers, takers>>

\* a handshake that reports every failure as "invalid secret"
HandshakeErrorOpaque(r, challenge) ==
    IF r.kind = "msg" /\ r.frame.type = "Authenticate"
          /\ Validate(AuthNew(auth), challenge, r.frame.tag)
    THEN "" ELSE InvalidSecretMsg

\* what handshake_server makes of the frame it awaited: "" is Ok(())
HandshakeError(r, challenge) ==
    CASE r.kind = "timeout" -> TimedOutMsg
      [] r.kind = "parse" -> ParseErrorMsg
      [] r.kind = "toolong" -> MaxChunkMsg
      [] r.kind = "eof" -> ExpectedAuthMsg
      [] r.kind = "msg" /\ r.frame.type # "Authenticate" -> ExpectedAuthMsg
      [] OTHER -> IF Validate(AuthNew(auth), challenge, r.frame.tag)
                  THEN "" ELSE InvalidSecretMsg

\* handshake_server after the Challenge, and handle_control's reply to its error
AuthRecv(c) ==
    /\ srv[c].pc = "auth"
    /\ CanSend(c)
    /\ \E r \in RecvTimeout(c) :
        LET e == HandshakeError(r, srv[c].challenge)
            got == IF r.kind = "msg" THEN r.frame.type ELSE r.kind
        IN  /\ c2s' = [c2s EXCEPT ![c] = r.wire]
            /\ IF e = ""
               THEN /\ srv' = [srv EXCEPT ![c].pc = "ready", ![c].read_buf = r.read_buf,
                                          ![c].tag = r.frame.tag, ![c].got = got]
                    /\ UNCHANGED <<s2c, sent>>
               ELSE /\ s2c' = Wire(c, Error(e))
                    /\ sent' = Logged(c, Error(e))
                    /\ srv' = [Return(c, IF SendOk(c) THEN "ok" ELSE "err", e)
                                  EXCEPT ![c].got = got]
    /\ UNCHANGED <<cli, task, loc, auth, others, subdomains, pending, conn, inb, nextId, timers, takers>>

\* ---------------------------------------- handle_control: first real message
\* a match whose Hello arm takes any message, for the subdomain "demo"
HelloOfAny(r) ==
    [ok |-> r.kind = "msg",
     subdomain |-> IF r.kind = "msg" /\ r.frame.type = "Hello" THEN r.frame.subdomain
                   ELSE "demo"]

\* the arm Some(ClientMsg::Hello { subdomain, proto }) of handle_control's match
HelloOf(r) ==
    [ok |-> r.kind = "msg" /\ r.frame.type = "Hello",
     subdomain |-> IF r.kind = "msg" /\ r.frame.type = "Hello" THEN r.frame.subdomain
                   ELSE ""]

\* a registry that never finds a subdomain taken
ContainsKeyNever(map, s) == FALSE

\* DashMap::contains_key on State.subdomains
ContainsKey(map, s) == s \in DOMAIN map

\* a take that reads the entry and leaves it in the map
PendingPeek(map, id) == map

\* DashMap::remove on State.pending: the map without the entry
PendingRemove(map, id) == Del(map, id)

\* seconds since the reap task of id went to sleep, in whole ticks
Elapsed(id) == timers[id].age * TickSecs

\* the match on recv_timeout()?: Hello runs claim_port's contains_key check,
\* Accept(id) runs pending.remove(&id), anything else ends the handler
ReadyRecv(c) ==
    /\ srv[c].pc = "ready"
    /\ CanSend(c)
    /\ \E r \in RecvTimeout(c) :
        LET s0 == [srv EXCEPT ![c].read_buf = r.read_buf]
            s1 == Return(c, "ok", "")
        IN  /\ c2s' = [c2s EXCEPT ![c] = r.wire]
            /\ CASE r.kind \in {"timeout", "parse", "toolong"} ->
                    /\ srv' = [s1 EXCEPT ![c].result = "err",
                                  ![c].reason = CASE r.kind = "parse" -> ParseErrorMsg
                                                  [] r.kind = "toolong" -> MaxChunkMsg
                                                  [] OTHER -> TimedOutMsg]
                    /\ UNCHANGED <<pending, inb, takers, s2c, sent>>
                 [] HelloOf(r).ok ->
                    LET s == HelloOf(r).subdomain
                    IN  IF ContainsKey(subdomains, s)
                        THEN /\ s2c' = Wire(c, Error(TakenMsg(s)))
                             /\ sent' = Logged(c, Error(TakenMsg(s)))
                             /\ srv' = [s1 EXCEPT ![c].subdomain = s,
                                           ![c].reason = TakenMsg(s),
                                           ![c].result = IF SendOk(c) THEN "ok" ELSE "err"]
                             /\ UNCHANGED <<pending, inb, takers>>
                        ELSE /\ srv' = [s0 EXCEPT ![c].pc = "claim", ![c].subdomain = s]
                             /\ UNCHANGED <<pending, inb, takers, s2c, sent>>
                 [] r.kind = "msg" /\ r.frame.type = "Accept" ->
                    LET id == r.frame.id
                    IN  IF id \in DOMAIN pending
                        THEN /\ pending' = PendingRemove(pending, id)
                             /\ takers' = [takers EXCEPT ![id] = @ \cup {c}]
                             /\ inb' = [inb EXCEPT ![pending[id]].st = "taken"]
                             /\ srv' = [s0 EXCEPT ![c].pc = "flush", ![c].id = id,
                                           ![c].inbound = pending[id],
                                           ![c].elapsed = Elapsed(id)]
                             /\ UNCHANGED <<s2c, sent>>
                        ELSE /\ srv' = [s1 EXCEPT ![c].id = id,
                                           ![c].elapsed = IF timers[id].st = "none" THEN -1
                                                          ELSE Elapsed(id)]
                             /\ UNCHANGED <<pending, inb, takers, s2c, sent>>
                 [] OTHER ->
                    /\ srv' = s1
                    /\ UNCHANGED <<pending, inb, takers, s2c, sent>>
    /\ UNCHANGED <<cli, task, loc, auth, others, subdomains, conn, nextId, timers>>

\* ------------------------------------------------------------- claim_port
\* a bind loop that gives up at the first pick that fails
TryBindOnce(k, p, busy) ==
    IF k = 0 /\ p \notin busy THEN [ok |-> TRUE, port |-> p, attempts |-> 1]
    ELSE [ok |-> FALSE, port |-> 0, attempts |-> 1]

\* the bind loop on a run of port picks: the first k picks land on ports in
\* use, every later pick is p. The loop returns at the first pick that binds.
TryBind(k, p, busy) ==
    LET binds == {i \in 0..(MAX_ATTEMPTS - 1) : i >= k /\ p \notin busy}
    IN  IF binds = {} THEN [ok |-> FALSE, port |-> 0, attempts |-> MAX_ATTEMPTS]
        ELSE LET i == CHOOSE x \in binds : \A y \in binds : x <= y
             IN  [ok |-> TRUE, port |-> p, attempts |-> i + 1]

\* picks that fail are alike: these lengths of the failing run are tried
FailRuns == {0, 1, MAX_ATTEMPTS - 1, MAX_ATTEMPTS}

\* claim_port after the contains_key check, and handle_control's reply to Err
ClaimBind(c) ==
    /\ srv[c].pc = "claim"
    /\ CanSend(c)
    /\ \E k \in FailRuns, p \in Ports :
        /\ k > 0 => BoundPorts # {}
        /\ LET r == TryBind(k, p, BoundPorts)
           IN  IF r.ok
               THEN /\ subdomains' = Put(subdomains, srv[c].subdomain, r.port)
                    /\ srv' = [srv EXCEPT ![c].pc = "claimed", ![c].listener = r.port]
                    /\ UNCHANGED <<s2c, sent>>
               ELSE /\ s2c' = Wire(c, Error(NoPortsMsg))
                    /\ sent' = Logged(c, Error(NoPortsMsg))
                    /\ srv' = [Return(c, IF SendOk(c) THEN "ok" ELSE "err", NoPortsMsg)
                                  EXCEPT ![c].attempts = r.attempts]
                    /\ UNCHANGED subdomains
    /\ UNCHANGED <<cli, task, loc, auth, others, pending, conn, c2s, inb, nextId, timers, takers>>

\* handle_control: listener.local_addr()? and ctrl.send(Hello{public_port})?
SendHello(c) ==
    /\ srv[c].pc = "claimed"
    /\ CanSend(c)
    /\ \E addrOk \in BOOLEAN :
        IF addrOk /\ SendOk(c)
        THEN /\ s2c' = Wire(c, ServerHello(srv[c].listener))
             /\ sent' = Logged(c, ServerHello(srv[c].listener))
             /\ srv' = [srv EXCEPT ![c].pc = "driver"]
             /\ UNCHANGED inb
        ELSE /\ srv' = Return(c, "err", IoErrorMsg)
             /\ inb' = DropListener(srv[c].listener)
             /\ UNCHANGED <<s2c, sent>>
    /\ UNCHANGED <<cli, task, loc, auth, others, subdomains, pending, conn, c2s, nextId, timers, takers>>

\* ----------------------------------------------------------- drive_tunnel
\* drive_tunnel returned: state.subdomains.remove(&subdomain), handler ends
TunnelClosed(c, result, reason) ==
    /\ subdomains' = Del(subdomains, srv[c].subdomain)
    /\ srv' = Return(c, result, reason)
    /\ inb' = DropListener(srv[c].listener)

\* a driver that ignores the result of the Heartbeat send
SendHeartbeatIgnore(c) ==
    /\ srv[c].pc = "driver"
    /\ CanSend(c)
    /\ s2c' = Wire(c, Heartbeat)
    /\ srv' = [srv EXCEPT ![c].pc = "accept"]
    /\ UNCHANGED <<cli, task, loc, auth, others, subdomains, pending, conn, c2s, sent, inb,
                   nextId, timers, takers>>

\* top of the loop: ctrl.send(Heartbeat); a failed send returns Ok(())
SendHeartbeat(c) ==
    /\ srv[c].pc = "driver"
    /\ CanSend(c)
    /\ IF SendOk(c)
       THEN /\ s2c' = Wire(c, Heartbeat)
            /\ srv' = [srv EXCEPT ![c].pc = "accept"]
            /\ UNCHANGED <<subdomains, inb>>
       ELSE /\ TunnelClosed(c, "ok", "")
            /\ UNCHANGED s2c
    /\ UNCHANGED <<cli, task, loc, auth, others, pending, conn, c2s, sent, nextId, timers, takers>>

\* the oldest connection waiting on handler c's listener
Backlog(c) == {i \in Inbounds : inb[i].st = "backlog" /\ inb[i].port = srv[c].listener}

\* a driver that announces the id before it parks the stream
ListenerAcceptLate(c) ==
    /\ srv[c].pc = "accept"
    /\ Backlog(c) # {}
    /\ nextId \in Ids
    /\ srv' = [srv EXCEPT ![c].pc = "announce", ![c].id = nextId]
    /\ nextId' = nextId + 1
    /\ UNCHANGED <<cli, task, loc, auth, others, subdomains, pending, conn, c2s, s2c, sent,
                   inb, timers, takers>>

\* Ok(Ok((stream, addr))): park the stream under a fresh id, spawn its reaper
ListenerAccept(c) ==
    /\ srv[c].pc = "accept"
    /\ Backlog(c) # {}
    /\ nextId \in Ids
    /\ LET i == CHOOSE j \in Backlog(c) : \A k \in Backlog(c) : j <= k
       IN  /\ pending' = Put(pending, nextId, i)
           /\ inb' = [inb EXCEPT ![i].st = "parked"]
    /\ timers' = [timers EXCEPT ![nextId] = [st |-> "armed", age |-> 0]]
    /\ srv' = [srv EXCEPT ![c].pc = "announce", ![c].id = nextId]
    /\ nextId' = nextId + 1
    /\ UNCHANGED <<cli, task, loc, auth, others, subdomains, conn, c2s, s2c, sent, takers>>

\* Err(_): 500 ms passed with nothing to accept
AcceptTimeout(c) ==
    /\ srv[c].pc = "accept"
    /\ Backlog(c) = {}
    /\ srv' = [srv EXCEPT ![c].pc = "driver"]
    /\ UNCHANGED <<cli, task, loc, auth, others, subdomains, pending, conn, c2s, s2c, sent, inb, nextId, timers, takers>>

\* Ok(Err(e)): listener.accept() failed
AcceptError(c) ==
    /\ srv[c].pc = "accept"
    /\ TunnelClosed(c, "err", IoErrorMsg)
    /\ UNCHANGED <<cli, task, loc, auth, others, pending, conn, c2s, s2c, sent, nextId, timers, takers>>

\* ctrl.send(Connection(id))?
Announce(c) ==
    /\ srv[c].pc = "announce"
    /\ CanSend(c)
    /\ IF SendOk(c)
       THEN /\ s2c' = Wire(c, Connection(srv[c].id))
            /\ sent' = Logged(c, Connection(srv[c].id))
            /\ srv' = [srv EXCEPT ![c].pc = "driver"]
            /\ UNCHANGED <<subdomains, inb>>
       ELSE /\ TunnelClosed(c, "err", IoErrorMsg)
            /\ UNCHANGED <<s2c, sent>>
    /\ UNCHANGED <<cli, task, loc, auth, others, pending, conn, c2s, nextId, timers, takers>>

\* ------------------------------------------------------------- reap timer
\* a reap task that does not sleep
ReapAtOnce(id) ==
    /\ timers[id].st = "armed"
    /\ timers' = [timers EXCEPT ![id].st = "fired"]
    /\ IF id \in DOMAIN pending
       THEN /\ pending' = PendingRemove(pending, id)
            /\ inb' = [inb EXCEPT ![pending[id]].st = "dropped"]
            /\ takers' = [takers EXCEPT ![id] = @ \cup {0}]
       ELSE UNCHANGED <<pending, inb, takers>>
    /\ UNCHANGED <<cli, task, loc, auth, others, subdomains, srv, conn, c2s, s2c, sent, nextId>>

\* a reap task that wakes and only logs
ReapKeep(id) ==
    /\ timers[id].st = "armed"
    /\ Elapsed(id) >= REAP_SECS
    /\ timers' = [timers EXCEPT ![id].st = "fired"]
    /\ UNCHANGED <<cli, task, loc, auth, others, subdomains, pending, srv, conn, c2s, s2c, sent, inb, nextId, takers>>

\* the spawned task after sleep(10 s): pending.remove(&id)
Reap(id) ==
    /\ timers[id].st = "armed"
    /\ Elapsed(id) >= REAP_SECS
    /\ timers' = [timers EXCEPT ![id].st = "fired"]
    /\ IF id \in DOMAIN pending
       THEN /\ pending' = PendingRemove(pending, id)
            /\ inb' = [inb EXCEPT ![pending[id]].st = "dropped"]
            /\ takers' = [takers EXCEPT ![id] = @ \cup {0}]
       ELSE UNCHANGED <<pending, inb, takers>>
    /\ UNCHANGED <<cli, task, loc, auth, others, subdomains, srv, conn, c2s, s2c, sent, nextId>>

\* time passes for every sleeping reap task
Tick ==
    /\ \E id \in Ids : timers[id].st = "armed" /\ timers[id].age < MaxAge
    /\ timers' = [id \in Ids |->
                    IF timers[id].st = "armed" /\ timers[id].age < MaxAge
                    THEN [timers[id] EXCEPT !.age = @ + 1] ELSE timers[id]]
    /\ UNCHANGED <<cli, task, loc, auth, others, subdomains, pending, srv, conn, c2s, s2c, sent, inb, nextId, takers>>

\* ------------------------------------------- handle_control: accept path
\* an item of a stream read as raw data: a byte is itself, a frame is its JSON
Json == 0
Raw(x) == IF x.type = "Byte" THEN x.val ELSE Json
\* a buffer as raw data
Bytes(buf) == [n \in 1..Len(buf) |-> Raw(buf[n])]

\* the client's end no longer writes: closed, or its write side shut down
ClientEof(c) == conn[c].st \in {"closed", "shut"}

\* an upgrade to raw copy that forgets parts.read_buf
FlushSkip(c) ==
    /\ srv[c].pc = "flush"
    /\ srv' = [srv EXCEPT ![c].pc = "copy", ![c].a2b = "run", ![c].b2a = "run"]
    /\ UNCHANGED <<cli, task, loc, auth, others, subdomains, pending, conn, c2s, s2c, sent,
                   inb, nextId, timers, takers>>

\* ctrl.into_parts() and inbound.write_all(&parts.read_buf)?
Flush(c) ==
    /\ srv[c].pc = "flush"
    /\ LET i == srv[c].inbound
       IN  IF srv[c].read_buf # <<>> /\ inb[i].peer = "closed"
           THEN /\ srv' = Return(c, "err", IoErrorMsg)
                /\ inb' = [inb EXCEPT ![i].st = "dropped"]
           ELSE /\ srv' = [srv EXCEPT ![c].pc = "copy", ![c].a2b = "run", ![c].b2a = "run"]
                /\ inb' = [inb EXCEPT ![i].tx = @ \o Bytes(srv[c].read_buf)]
    /\ UNCHANGED <<cli, task, loc, auth, others, subdomains, pending, conn, c2s, s2c, sent, nextId, timers, takers>>

\* copy_bidirectional, inbound -> io: one byte read from the parked socket is
\* written to the data connection; a failed write ends the copy with Err
CopyInboundToIo(c) ==
    /\ srv[c].pc = "copy" /\ srv[c].a2b = "run"
    /\ LET i == srv[c].inbound
       IN  /\ inb[i].rx # <<>>
           /\ CanSend(c)
           /\ IF SendOk(c)
              THEN /\ s2c' = Wire(c, Byte(Head(inb[i].rx)))
                   /\ inb' = [inb EXCEPT ![i].rx = Tail(@)]
                   /\ UNCHANGED srv
              ELSE /\ srv' = Return(c, "err", IoErrorMsg)
                   /\ inb' = [inb EXCEPT ![i].st = "dropped"]
                   /\ UNCHANGED s2c
    /\ UNCHANGED <<cli, task, loc, auth, others, subdomains, pending, conn, c2s, sent, nextId, timers, takers>>

\* copy_bidirectional, io -> inbound
CopyIoToInbound(c) ==
    /\ srv[c].pc = "copy" /\ srv[c].b2a = "run"
    /\ c2s[c] # <<>>
    /\ LET i == srv[c].inbound
       IN  IF inb[i].peer = "open"
           THEN /\ inb' = [inb EXCEPT ![i].tx = Append(@, Raw(Head(c2s[c])))]
                /\ c2s' = [c2s EXCEPT ![c] = Tail(@)]
                /\ UNCHANGED srv
           ELSE /\ srv' = Return(c, "err", IoErrorMsg)
                /\ inb' = [inb EXCEPT ![i].st = "dropped"]
                /\ UNCHANGED c2s
    /\ UNCHANGED <<cli, task, loc, auth, others, subdomains, pending, conn, s2c, sent, nextId, timers, takers>>

\* copy_bidirectional: a read returned 0, that direction shuts the other
\* side's write half down and is finished
CopyEof(c) ==
    /\ srv[c].pc = "copy"
    /\ LET i == srv[c].inbound
       IN  \/ /\ srv[c].a2b = "run" /\ inb[i].rx = <<>> /\ inb[i].peer = "closed"
              /\ srv' = [srv EXCEPT ![c].a2b = "done"]
              /\ UNCHANGED inb
           \/ /\ srv[c].b2a = "run" /\ c2s[c] = <<>> /\ ClientEof(c)
              /\ srv' = [srv EXCEPT ![c].b2a = "done"]
              /\ inb' = [inb EXCEPT ![i].eof = TRUE]
    /\ UNCHANGED <<cli, task, loc, auth, others, subdomains, pending, conn, c2s, s2c, sent, nextId, timers, takers>>

\* copy_bidirectional returned Ok: both sockets are dropped
CopyDone(c) ==
    /\ srv[c].pc = "copy" /\ srv[c].a2b = "done" /\ srv[c].b2a = "done"
    /\ srv' = Return(c, "ok", "")
    /\ inb' = [inb EXCEPT ![srv[c].inbound].st = "dropped"]
    /\ UNCHANGED <<cli, task, loc, auth, others, subdomains, pending, conn, c2s, s2c, sent, nextId, timers, takers>>

\* --------------------------------------------------- the public internet
\* somebody connects to a tunnel's public port
InboundConnect(i, p) ==
    /\ inb[i].st = "none"
    /\ \A j \in Inbounds : j < i => inb[j].st # "none"
    /\ \E c \in Conns : srv[c].listener = p
    /\ inb' = [inb EXCEPT ![i].st = "backlog", ![i].port = p]
    /\ UNCHANGED <<cli, task, loc, auth, others, subdomains, pending, srv, conn, c2s, s2c, sent, nextId, timers, takers>>

\* the inbound peer closes its socket; the server can tell only while it
\* copies from or to the socket
PeerClose(i) ==
    /\ inb[i].st = "taken"
    /\ inb[i].peer = "open"
    /\ inb' = [inb EXCEPT ![i].peer = "closed"]
    /\ UNCHANGED <<cli, task, loc, auth, others, subdomains, pending, srv, conn, c2s, s2c, sent, nextId, timers, takers>>

\* ------------------------------------------ any program on the control port
\* nonces of the challenges issued so far
Nonces == {sent[d][1].nonce : d \in {x \in Conns : sent[x] # <<>> /\ sent[x][1].type = "Challenge"}}

\* tags a peer can put in Authenticate: the answer to its own challenge under
\* either secret, a replayed answer to another connection's challenge, no hex
EnvTags(c) ==
    {Answer(AuthNew(k), c) : k \in {x \in Secrets : c \in Nonces}}
        \cup {Answer(AuthNew("hunter2"), n) : n \in Nonces \ {c}}
        \cup {NotHex}

\* what a peer may write next: a registrant asks for a subdomain and an
\* acceptor for an id, each after answering the challenge it was sent; a rogue
\* writes anything
EnvFrames(c) ==
    LET first == conn[c].nsent = 0
        hellos == {Hello(s) : s \in Subdomains}
        accepts == {Accept(id) : id \in Ids}
        good == IF c \in Nonces THEN {Authenticate(Answer(AuthNew(auth), c))} ELSE {}
    IN  CASE conn[c].role = "rogue" ->
                hellos \cup accepts \cup {Garbage, TooLong}
                    \cup {Authenticate(t) : t \in IF first THEN EnvTags(c) ELSE {NotHex}}
          [] conn[c].role \in {"registrant", "acceptor"} ->
                IF first /\ auth # None THEN good
                ELSE IF conn[c].role = "registrant" THEN hellos ELSE accepts
          [] OTHER -> {}

\* the peer writes a frame; the server reads a second frame only after an
\* Authenticate, so no other second frame is written
EnvSend(c, f) ==
    /\ conn[c].st = "open" /\ srv[c].pc # "done"
    /\ Len(c2s[c]) < MaxQueue
    /\ \/ conn[c].nsent = 0
       \/ conn[c].nsent = 1 /\ conn[c].first = "Authenticate" /\ auth # None
    /\ c2s' = [c2s EXCEPT ![c] = Append(@, f)]
    /\ conn' = [conn EXCEPT ![c].nsent = @ + 1,
                            ![c].first = IF conn[c].nsent = 0 THEN f.type ELSE @]
    /\ UNCHANGED <<cli, task, loc, auth, others, subdomains, pending, srv, s2c, sent, inb, nextId, timers, takers>>

\* the peer closes the connection, or is killed
EnvClose(c) ==
    /\ conn[c].st = "open" /\ srv[c].pc # "done"
    /\ conn' = [conn EXCEPT ![c].st = "closed"]
    /\ UNCHANGED <<cli, task, loc, auth, others, subdomains, pending, srv, c2s, s2c, sent, inb, nextId, timers, takers>>

\* ------------------------------------------------------------ the client
\* the handler's end of connection c is gone: the server dropped the socket
ServerGone(c) == srv[c].pc = "done"
\* the server no longer writes on c: gone, or the copy shut its write side down
ServerEof(c) == ServerGone(c) \/ srv[c].a2b = "done"

\* client Auth::new and Auth::answer
CliAnswer(secret, challenge) == HexEncode(Hmac(AuthNew(secret), challenge))

\* the client's recv_timeout and recv on connection c
CliRecvTimeout(c) == Recv(task[c].read_buf, s2c[c], ServerGone(c))
CliRecv(c) == {r \in CliRecvTimeout(c) : r.kind # "timeout"}

\* a data task awaited by the event loop: its error ends run as well
CliReturnToRun(c, result, reason) ==
    LET ends(x) == x = c \/ (result = "err" /\ conn[x].role = "run" /\ task[x].pc = "loop")
    IN  /\ task' = [x \in Conns |->
                      IF ends(x)
                      THEN [task[x] EXCEPT !.pc = "done", !.result = result,
                                           !.reason = reason, !.read_buf = <<>>,
                                           !.a2b = "", !.b2a = ""]
                      ELSE task[x]]
        /\ conn' = [x \in Conns |->
                      IF ends(x) /\ conn[x].st # "none"
                      THEN [conn[x] EXCEPT !.st = "closed"] ELSE conn[x]]
        /\ loc' = [loc EXCEPT ![c].st = IF @ = "none" THEN @ ELSE "dropped"]

\* a client task returns: its sockets are dropped
CliReturn(c, result, reason) ==
    /\ task' = [task EXCEPT ![c].pc = "done", ![c].result = result, ![c].reason = reason,
                            ![c].read_buf = <<>>, ![c].a2b = "", ![c].b2a = ""]
    /\ conn' = [conn EXCEPT ![c].st = IF @ = "none" THEN @ ELSE "closed"]
    /\ loc' = [loc EXCEPT ![c].st = IF @ = "none" THEN @ ELSE "dropped"]

\* Framed_::send(m)? on the client's end, then on to pc: waits while the
\* socket is full; to a socket the server has dropped the write is lost or fails
CliSend(c, m, pc) ==
    IF ServerGone(c)
    THEN \/ /\ task' = [task EXCEPT ![c].pc = pc]
            /\ UNCHANGED <<c2s, conn, loc>>
         \/ /\ CliReturn(c, "err", IoErrorMsg)
            /\ UNCHANGED c2s
    ELSE /\ Len(c2s[c]) < MaxQueue
         /\ c2s' = [c2s EXCEPT ![c] = Append(@, m)]
         /\ task' = [task EXCEPT ![c].pc = pc]
         /\ UNCHANGED <<conn, loc>>

\* where a task goes once connected and, with a secret, authenticated
AfterAuth(c) == IF conn[c].role = "run" THEN "hello" ELSE "accept"

\* connect(&cli.server, CONTROL_PORT): the client dials its own CONTROL_PORT
CliConnect(c) ==
    /\ task[c].pc = "dial" /\ conn[c].st = "none"
    /\ IF CLIENT_CONTROL_PORT = CONTROL_PORT \/ cli.routed
       THEN /\ conn' = [conn EXCEPT ![c].st = "open"]
            /\ srv' = [srv EXCEPT ![c].pc = "start"]
            /\ task' = [task EXCEPT ![c].pc = IF cli.secret # None THEN "handshake"
                                              ELSE AfterAuth(c)]
            /\ UNCHANGED loc
       ELSE /\ CliReturn(c, "err", "connection refused")
            /\ UNCHANGED srv
    /\ UNCHANGED <<cli, auth, others, subdomains, pending, c2s, s2c, sent, inb, nextId,
                   timers, takers>>

\* client Auth::handshake
CliHandshake(c) ==
    /\ task[c].pc = "handshake"
    /\ \E r \in CliRecvTimeout(c) :
        /\ s2c' = [s2c EXCEPT ![c] = r.wire]
        /\ IF r.kind = "msg" /\ r.frame.type = "Challenge"
           THEN LET t == [task EXCEPT ![c].read_buf = r.read_buf]
                    m == Authenticate(CliAnswer(cli.secret, r.frame.nonce))
                IN  IF ServerGone(c)
                    THEN \/ /\ task' = [t EXCEPT ![c].pc = AfterAuth(c)]
                            /\ UNCHANGED <<c2s, conn, loc>>
                         \/ /\ CliReturn(c, "err", IoErrorMsg)
                            /\ UNCHANGED c2s
                    ELSE /\ Len(c2s[c]) < MaxQueue
                         /\ c2s' = [c2s EXCEPT ![c] = Append(@, m)]
                         /\ task' = [t EXCEPT ![c].pc = AfterAuth(c)]
                         /\ UNCHANGED <<conn, loc>>
           ELSE /\ CliReturn(c, "err", IF r.kind = "timeout" THEN TimedOutMsg
                                       ELSE "expected Challenge from server")
                /\ UNCHANGED c2s
    /\ UNCHANGED <<cli, auth, others, subdomains, pending, srv, sent, inb, nextId,
                   timers, takers>>

\* run: ctrl.send(ClientMsg::Hello{subdomain, proto})?
CliSendHello(c) ==
    /\ task[c].pc = "hello"
    /\ CliSend(c, Hello(cli.subdomain), "reply")
    /\ UNCHANGED <<cli, auth, others, subdomains, pending, srv, s2c, sent, inb, nextId,
                   timers, takers>>

\* run: the match on the server's reply to Hello
CliReply(c) ==
    /\ task[c].pc = "reply"
    /\ \E r \in CliRecvTimeout(c) :
        /\ s2c' = [s2c EXCEPT ![c] = r.wire]
        /\ IF r.kind = "msg" /\ r.frame.type = "ServerHello"
           THEN /\ task' = [task EXCEPT ![c].pc = "loop", ![c].read_buf = r.read_buf]
                /\ UNCHANGED <<conn, loc>>
           ELSE CliReturn(c, "err",
                    CASE r.kind = "timeout" -> TimedOutMsg
                      [] r.kind = "msg" /\ r.frame.type = "Error" ->
                            "server error: " \o r.frame.reason
                      [] r.kind = "msg" /\ r.frame.type = "Challenge" ->
                            "server requires auth but no --secret given"
                      [] OTHER -> "unexpected response from server")
    /\ UNCHANGED <<cli, auth, others, subdomains, pending, srv, c2s, sent, inb, nextId,
                   timers, takers>>

\* data connections not yet used by a spawned task
FreeData == {d \in Conns : conn[d].role = "data" /\ task[d].pc = "idle"}

\* run: one turn of the event loop; Connection(id) spawns handle_data_connection
CliLoop(c) ==
    /\ task[c].pc = "loop"
    /\ \E r \in CliRecv(c) :
        /\ s2c' = [s2c EXCEPT ![c] = r.wire]
        /\ CASE r.kind = "eof" ->
                    CliReturn(c, "ok", "")
             [] r.kind = "msg" /\ r.frame.type = "Connection" ->
                    /\ FreeData # {}
                    /\ LET d == CHOOSE x \in FreeData : \A y \in FreeData : x <= y
                       IN  task' = [task EXCEPT ![c].read_buf = r.read_buf,
                                                ![d].pc = "dial", ![d].id = r.frame.id]
                    /\ UNCHANGED <<conn, loc>>
             [] OTHER ->
                    /\ task' = [task EXCEPT ![c].read_buf = r.read_buf]
                    /\ UNCHANGED <<conn, loc>>
    /\ UNCHANGED <<cli, auth, others, subdomains, pending, srv, c2s, sent, inb, nextId,
                   timers, takers>>

\* handle_data_connection: data_conn.send(ClientMsg::Accept(id))?
CliSendAccept(c) ==
    /\ task[c].pc = "accept"
    /\ CliSend(c, Accept(task[c].id), "local")
    /\ UNCHANGED <<cli, auth, others, subdomains, pending, srv, s2c, sent, inb, nextId,
                   timers, takers>>

\* handle_data_connection: connect(&cli.host, cli.port)?
CliConnectLocal(c) ==
    /\ task[c].pc = "local"
    /\ \E up \in BOOLEAN :
        IF up
        THEN /\ task' = [task EXCEPT ![c].pc = "flush"]
             /\ loc' = [loc EXCEPT ![c].st = "open"]
             /\ UNCHANGED conn
        ELSE CliReturn(c, "err", "connection refused")
    /\ UNCHANGED <<cli, auth, others, subdomains, pending, srv, c2s, s2c, sent, inb, nextId,
                   timers, takers>>

\* handle_data_connection: into_parts() and local.write_all(&parts.read_buf)?
CliFlush(c) ==
    /\ task[c].pc = "flush"
    /\ IF task[c].read_buf # <<>> /\ loc[c].st # "open"
       THEN CliReturn(c, "err", IoErrorMsg)
       ELSE /\ task' = [task EXCEPT ![c].pc = "copy", ![c].a2b = "run", ![c].b2a = "run"]
            /\ loc' = [loc EXCEPT ![c].rx = @ \o Bytes(task[c].read_buf)]
            /\ UNCHANGED conn
    /\ UNCHANGED <<cli, auth, others, subdomains, pending, srv, c2s, s2c, sent, inb, nextId,
                   timers, takers>>

\* copy_bidirectional, io -> local, writing each byte twice
CliCopyIoToLocalTwice(c) ==
    /\ task[c].pc = "copy" /\ task[c].b2a = "run"
    /\ s2c[c] # <<>>
    /\ loc[c].st = "open"
    /\ loc' = [loc EXCEPT ![c].rx = @ \o <<Raw(Head(s2c[c])), Raw(Head(s2c[c]))>>]
    /\ s2c' = [s2c EXCEPT ![c] = Tail(@)]
    /\ UNCHANGED <<task, conn>>
    /\ UNCHANGED <<cli, auth, others, subdomains, pending, srv, c2s, sent, inb, nextId,
                   timers, takers>>

\* copy_bidirectional, io -> local: one byte from the server is written to
\* the local service
CliCopyIoToLocal(c) ==
    /\ task[c].pc = "copy" /\ task[c].b2a = "run"
    /\ s2c[c] # <<>>
    /\ IF loc[c].st = "open"
       THEN /\ loc' = [loc EXCEPT ![c].rx = Append(@, Raw(Head(s2c[c])))]
            /\ s2c' = [s2c EXCEPT ![c] = Tail(@)]
            /\ UNCHANGED <<task, conn>>
       ELSE /\ CliReturn(c, "err", IoErrorMsg)
            /\ UNCHANGED s2c
    /\ UNCHANGED <<cli, auth, others, subdomains, pending, srv, c2s, sent, inb, nextId,
                   timers, takers>>

\* copy_bidirectional, local -> io
CliCopyLocalToIo(c) ==
    /\ task[c].pc = "copy" /\ task[c].a2b = "run"
    /\ loc[c].tx # <<>>
    /\ IF ServerGone(c)
       THEN /\ CliReturn(c, "err", IoErrorMsg)
            /\ UNCHANGED c2s
       ELSE /\ Len(c2s[c]) < MaxQueue
            /\ c2s' = [c2s EXCEPT ![c] = Append(@, Byte(Head(loc[c].tx)))]
            /\ loc' = [loc EXCEPT ![c].tx = Tail(@)]
            /\ UNCHANGED <<task, conn>>
    /\ UNCHANGED <<cli, auth, others, subdomains, pending, srv, s2c, sent, inb, nextId,
                   timers, takers>>

\* copy_bidirectional on the client: a read returned 0
CliCopyEof(c) ==
    /\ task[c].pc = "copy"
    /\ \/ /\ task[c].a2b = "run" /\ loc[c].tx = <<>> /\ loc[c].st = "closed"
          /\ task' = [task EXCEPT ![c].a2b = "done"]
          /\ conn' = [conn EXCEPT ![c].st = "shut"]
       \/ /\ task[c].b2a = "run" /\ s2c[c] = <<>> /\ ServerEof(c)
          /\ task' = [task EXCEPT ![c].b2a = "done"]
          /\ UNCHANGED conn
    /\ UNCHANGED <<cli, loc, auth, others, subdomains, pending, srv, c2s, s2c, sent, inb,
                   nextId, timers, takers>>

\* copy_bidirectional returned Ok on the client
CliCopyDone(c) ==
    /\ task[c].pc = "copy" /\ task[c].a2b = "done" /\ task[c].b2a = "done"
    /\ CliReturn(c, "ok", "")
    /\ UNCHANGED <<cli, auth, others, subdomains, pending, srv, c2s, s2c, sent, inb, nextId,
                   timers, takers>>

\* ------------------------------------------------- the two ends of a tunnel
PeerByte(k) == k
LocalByte(k) == 10 + k
\* what the inbound peer / the local service has written so far
PeerWritten(i) == [k \in 1..inb[i].nw |-> PeerByte(k)]
LocalWritten(c) == [k \in 1..loc[c].nw |-> LocalByte(k)]

\* the inbound peer writes its next byte; the kernel takes it even before the
\* server has accepted or taken the socket
PeerWrite(i) ==
    /\ inb[i].st \in {"backlog", "parked", "taken"} /\ inb[i].peer = "open"
    /\ inb[i].nw < MaxPeerBytes /\ Len(inb[i].rx) < MaxQueue
    /\ inb' = [inb EXCEPT ![i].rx = Append(@, PeerByte(inb[i].nw + 1)), ![i].nw = @ + 1]
    /\ UNCHANGED <<cli, task, loc, auth, others, subdomains, pending, srv, conn, c2s, s2c,
                   sent, nextId, timers, takers>>

\* the local service writes its next byte
LocalWrite(c) ==
    /\ loc[c].st = "open"
    /\ loc[c].nw < MaxLocalBytes /\ Len(loc[c].tx) < MaxQueue
    /\ loc' = [loc EXCEPT ![c].tx = Append(@, LocalByte(loc[c].nw + 1)), ![c].nw = @ + 1]
    /\ UNCHANGED <<cli, task, auth, others, subdomains, pending, srv, conn, c2s, s2c,
                   sent, inb, nextId, timers, takers>>

\* the local service closes the connection
LocalClose(c) ==
    /\ loc[c].st = "open"
    /\ loc' = [loc EXCEPT ![c].st = "closed"]
    /\ UNCHANGED <<cli, task, auth, others, subdomains, pending, srv, conn, c2s, s2c,
                   sent, inb, nextId, timers, takers>>

\* ---------------------------------------------------------- specification
Server(c) ==
    \/ HandleStart(c) \/ AuthRecv(c) \/ ReadyRecv(c) \/ ClaimBind(c) \/ SendHello(c)
    \/ SendHeartbeat(c) \/ ListenerAccept(c) \/ AcceptTimeout(c) \/ AcceptError(c)
    \/ Announce(c) \/ Flush(c) \/ CopyEof(c) \/ CopyDone(c)

Next ==
    \/ \E c \in Conns : Connect(c) \/ Server(c) \/ EnvClose(c)
    \/ \E c \in Conns : \E f \in EnvFrames(c) : EnvSend(c, f)
    \/ \E id \in Ids : Reap(id)
    \/ Tick
    \/ \E i \in Inbounds : PeerClose(i) \/ \E p \in Ports : InboundConnect(i, p)

Spec == Init /\ [][Next]_vars

\* one tunnel with a secret, two public connections, one data connection
FairScenarios ==
    {[auth |-> "hunter2", others |-> {}, public |-> 2,
      roles |-> <<"registrant", "acceptor">>]}

FairInit == \E sc \in FairScenarios : Start(sc)

\* time passes, and the runtime runs every spawned reap task whose sleep
\* is over
FairSpec ==
    FairInit /\ [][Next]_vars /\ WF_vars(Tick) /\ \A id \in Ids : WF_vars(Reap(id))

\* two clients that ask for the same subdomain one after the other or at
\* once, and one tunnel with a secret that is used
LiveScenarios ==
    {[auth |-> None, others |-> {}, public |-> 1,
      roles |-> <<"registrant", "registrant">>],
     [auth |-> "hunter2", others |-> {}, public |-> 1,
      roles |-> <<"registrant", "acceptor">>]}

LiveInit == \E sc \in LiveScenarios : Start(sc)

\* the runtime runs every handler task that can take a step: a send to a
\* closed socket fails, the 500 ms accept timeout runs out
LiveSpec == LiveInit /\ [][Next]_vars /\ \A c \in Conns : WF_vars(Server(c))

\* a client against a server: the server's secret, the client's, whether the
\* client's dial reaches the server, and the public connections to come
ClientScenarios ==
    {[auth |-> None, secret |-> None, routed |-> TRUE, public |-> 1],
     [auth |-> "hunter2", secret |-> "hunter2", routed |-> TRUE, public |-> 1],
     [auth |-> "hunter2", secret |-> "wrong", routed |-> TRUE, public |-> 1],
     [auth |-> "hunter2", secret |-> None, routed |-> TRUE, public |-> 1],
     [auth |-> None, secret |-> "hunter2", routed |-> TRUE, public |-> 1],
     [auth |-> "hunter2", secret |-> "hunter2", routed |-> FALSE, public |-> 1]}

ClientStart(sc) ==
    /\ ServerStart([auth |-> sc.auth, others |-> {}, public |-> sc.public,
                    roles |-> <<"run", "data">>])
    /\ cli = [secret |-> sc.secret, subdomain |-> "demo", routed |-> sc.routed]
    /\ task = [c \in Conns |-> IF c = 1 THEN [NoTask EXCEPT !.pc = "dial"] ELSE NoTask]
    /\ loc = [c \in Conns |-> NoLoc]

ClientInit == \E sc \in ClientScenarios : ClientStart(sc)

Client(c) ==
    \/ CliConnect(c) \/ CliHandshake(c) \/ CliSendHello(c) \/ CliReply(c) \/ CliLoop(c)
    \/ CliSendAccept(c) \/ CliConnectLocal(c) \/ CliFlush(c) \/ CliCopyIoToLocal(c)
    \/ CliCopyLocalToIo(c) \/ CliCopyEof(c) \/ CliCopyDone(c)

ClientNext ==
    \/ \E c \in Conns : Client(c) \/ Server(c) \/ CopyInboundToIo(c) \/ CopyIoToInbound(c)
    \/ \E c \in Conns : LocalWrite(c) \/ LocalClose(c)
    \/ \E id \in Ids : Reap(id)
    \/ Tick
    \/ \E i \in Inbounds : PeerWrite(i) \/ PeerClose(i) \/ \E p \in Ports : InboundConnect(i, p)

ClientSpec == ClientInit /\ [][ClientNext]_vars

\* every pair of secret settings of server and client; public connections
\* come to the tunnel without secrets
ComboScenarios ==
    {[auth |-> None, secret |-> None, routed |-> TRUE, public |-> 1],
     [auth |-> "hunter2", secret |-> "hunter2", routed |-> TRUE, public |-> 0],
     [auth |-> "hunter2", secret |-> "wrong", routed |-> TRUE, public |-> 0],
     [auth |-> "hunter2", secret |-> None, routed |-> TRUE, public |-> 0],
     [auth |-> None, secret |-> "hunter2", routed |-> TRUE, public |-> 0]}

ComboInit == \E sc \in ComboScenarios : ClientStart(sc)

\* the runtimes of both programs run every task that can take a step; a
\* recv_timeout that has nothing to read returns when its 5 s are over
ClientFairSpec ==
    ComboInit /\ [][ClientNext]_vars
        /\ \A c \in Conns : WF_vars(Client(c)) /\ WF_vars(Server(c))

\* ------------------------------------------------ the codec, byte by byte
\* A control connection at the level of bytes: the client's run sends its
\* Hello, the server's first recv_timeout reads it in one or more reads and
\* handle_control answers. Wires and read_buf hold bytes (UTF-8 codes).
\* {"Hello":{"subdomain":"
JsonHelloOpen ==
    <<123, 34, 72, 101, 108, 108, 111, 34, 58, 123, 34, 115, 117, 98, 100, 111, 109, 97, 105, 110, 34, 58, 34>>
\* ","proto":"Http"}}
JsonProtoHttp ==
    <<34, 44, 34, 112, 114, 111, 116, 111, 34, 58, 34, 72, 116, 116, 112, 34, 125, 125>>
\* ","proto":"Tcp"}}
JsonProtoTcp ==
    <<34, 44, 34, 112, 114, 111, 116, 111, 34, 58, 34, 84, 99, 112, 34, 125, 125>>
\* {"Error":"
JsonErrorOpen ==
    <<123, 34, 69, 114, 114, 111, 114, 34, 58, 34>>
\* "}
JsonErrorClose ==
    <<34, 125>>
\* subdomain '
TakenOpen ==
    <<115, 117, 98, 100, 111, 109, 97, 105, 110, 32, 39>>
\* ' is already taken
TakenClose ==
    <<39, 32, 105, 115, 32, 97, 108, 114, 101, 97, 100, 121, 32, 116, 97, 107, 101, 110>>
\* a subdomain of n letters; serde_json writes a letter as itself
Sub(n) == [i \in 1..n |-> 97]
\* serde_json::to_string(&ClientMsg::Hello { subdomain, proto })
HelloJson(subdomain, tcp) ==
    JsonHelloOpen \o subdomain \o (IF tcp THEN JsonProtoTcp ELSE JsonProtoHttp)
\* serde_json::to_string(&ServerMsg::Error(reason))
ErrorJson(reason) == JsonErrorOpen \o reason \o JsonErrorClose
\* format!("subdomain '{subdomain}' is already taken")
TakenText(subdomain) == TakenOpen \o subdomain \o TakenClose
\* Framed_::send: the codec's encoder writes the chunk and then the delimiter
\* 0; it does not look at the length
Encode(chunk) == Append(chunk, 0)

\* serde_json::from_slice::<ClientMsg> on what the client's Hello looks like:
\* anything else is a parse error
FromSlice(chunk) ==
    LET n == Len(chunk)
        open == Len(JsonHelloOpen)
        Is(close) ==
            /\ n >= open + Len(close)
            /\ SubSeq(chunk, 1, open) = JsonHelloOpen
            /\ SubSeq(chunk, n - Len(close) + 1, n) = close
            /\ \A i \in (open + 1)..(n - Len(close)) : chunk[i] >= 32 /\ chunk[i] \notin {34, 92}
        Mid(close) == SubSeq(chunk, open + 1, n - Len(close))
    IN  IF Is(JsonProtoHttp)
        THEN [ok |-> TRUE, subdomain |-> Mid(JsonProtoHttp), tcp |-> FALSE]
        ELSE IF Is(JsonProtoTcp)
        THEN [ok |-> TRUE, subdomain |-> Mid(JsonProtoTcp), tcp |-> TRUE]
        ELSE [ok |-> FALSE, subdomain |-> <<>>, tcp |-> FALSE]

\* a decoder whose limit counts the delimiter too
DecodeWithDelimiter(next_index, buf) ==
    LET read_to == IF MAX_FRAME < Len(buf) THEN MAX_FRAME ELSE Len(buf)
        found == {i \in (next_index + 1)..read_to : buf[i] = 0}
    IN  IF found # {}
        THEN LET at == CHOOSE i \in found : \A j \in found : i <= j
             IN  [kind |-> "chunk", chunk |-> SubSeq(buf, 1, at - 1),
                  read_buf |-> SubSeq(buf, at + 1, Len(buf)), next_index |-> 0]
        ELSE IF Len(buf) > MAX_FRAME - 1
        THEN [kind |-> "err", chunk |-> <<>>, read_buf |-> buf, next_index |-> next_index]
        ELSE [kind |-> "none", chunk |-> <<>>, read_buf |-> buf, next_index |-> read_to]

\* AnyDelimiterCodec::new_with_max_length(vec![0], vec![0], MAX_FRAME), its
\* decode on the bytes read so far: the delimiter is looked for in
\* buf[next_index .. min(max_length + 1, len)]; without one, more than
\* max_length bytes are MaxChunkLengthExceeded, fewer wait for the next read.
\* (The error ends the handler, so the decoder never runs in discarding mode.)
Decode(next_index, buf) ==
    LET read_to == IF MAX_FRAME + 1 < Len(buf) THEN MAX_FRAME + 1 ELSE Len(buf)
        found == {i \in (next_index + 1)..read_to : buf[i] = 0}
    IN  IF found # {}
        THEN LET at == CHOOSE i \in found : \A j \in found : i <= j
             IN  [kind |-> "chunk", chunk |-> SubSeq(buf, 1, at - 1),
                  read_buf |-> SubSeq(buf, at + 1, Len(buf)), next_index |-> 0]
        ELSE IF Len(buf) > MAX_FRAME
        THEN [kind |-> "err", chunk |-> <<>>, read_buf |-> buf, next_index |-> next_index]
        ELSE [kind |-> "none", chunk |-> <<>>, read_buf |-> buf, next_index |-> read_to]

\* the handler and its Framed_ at the level of bytes
NoFramed == [pc |-> "idle", read_buf |-> <<>>, next_index |-> 0, reads |-> 0,
             subdomain |-> <<>>, result |-> "", reason |-> "", got |-> ""]

\* the client's run at "Register subdomain": ctrl.send(ClientMsg::Hello {..})
FrameSendHello(c) ==
    /\ task[c].pc = "hello"
    /\ LET f == Encode(HelloJson(cli.subdomain, cli.tcp))
       IN  /\ c2s' = [c2s EXCEPT ![c] = @ \o f]
           /\ task' = [task EXCEPT ![c].pc = "reply", ![c].wrote = Append(@, f)]
    /\ UNCHANGED <<cli, loc, auth, others, subdomains, pending, srv, conn, s2c, sent, inb,
                   nextId, timers, takers>>

\* the server's recv_timeout, one read of the socket at a time (a read takes
\* any non-empty prefix of what has arrived), and handle_control's match on a
\* Hello up to claim_port's contains_key
FrameRecv(c) ==
    /\ srv[c].pc = "ready" /\ c2s[c] # <<>>
    /\ \E n \in 1..Len(c2s[c]) :
        /\ srv[c].reads + 1 >= MaxReads => n = Len(c2s[c])
        /\ LET buf == srv[c].read_buf \o SubSeq(c2s[c], 1, n)
               d == Decode(srv[c].next_index, buf)
               m == FromSlice(d.chunk)
               s0 == [srv EXCEPT ![c].read_buf = d.read_buf,
                                 ![c].next_index = d.next_index, ![c].reads = @ + 1]
               reply == Encode(ErrorJson(TakenText(m.subdomain)))
           IN  /\ c2s' = [c2s EXCEPT ![c] = SubSeq(@, n + 1, Len(@))]
               /\ CASE d.kind = "none" ->
                       srv' = s0 /\ UNCHANGED <<s2c, sent>>
                    [] d.kind = "err" ->
                       /\ srv' = [s0 EXCEPT ![c].pc = "done", ![c].result = "err",
                                            ![c].reason = MaxChunkMsg]
                       /\ UNCHANGED <<s2c, sent>>
                    [] d.kind = "chunk" /\ ~m.ok ->
                       /\ srv' = [s0 EXCEPT ![c].pc = "done", ![c].result = "err",
                                            ![c].reason = ParseErrorMsg]
                       /\ UNCHANGED <<s2c, sent>>
                    [] OTHER ->
                       IF m.subdomain \in DOMAIN subdomains
                       THEN /\ s2c' = [s2c EXCEPT ![c] = @ \o reply]
                            /\ sent' = [sent EXCEPT ![c] = Append(@, reply)]
                            /\ srv' = [s0 EXCEPT ![c].pc = "done", ![c].result = "ok",
                                                 ![c].got = "Hello",
                                                 ![c].subdomain = m.subdomain]
                       ELSE /\ srv' = [s0 EXCEPT ![c].pc = "claim", ![c].got = "Hello",
                                                 ![c].subdomain = m.subdomain]
                            /\ UNCHANGED <<s2c, sent>>
    /\ UNCHANGED <<cli, task, loc, auth, others, subdomains, pending, conn, inb, nextId,
                   timers, takers>>

\* the subdomain the client was started with, its --tcp flag, and whether
\* another registration holds the subdomain: a key of the map arrived in a
\* Hello that the decoder accepted
FrameInit ==
    \E n \in SubLens, tcp \in BOOLEAN, taken \in BOOLEAN :
        /\ taken => Len(HelloJson(Sub(n), TRUE)) <= MAX_FRAME
        /\ cli = [secret |-> None, subdomain |-> Sub(n), routed |-> TRUE, tcp |-> tcp]
        /\ subdomains = IF taken THEN Put(<<>>, Sub(n), MIN_PORT) ELSE <<>>
        /\ task = [c \in Conns |->
                     IF c = 1 THEN [pc |-> "hello", wrote |-> <<>>] ELSE NoTask]
        /\ srv = [c \in Conns |-> IF c = 1 THEN [NoFramed EXCEPT !.pc = "ready"] ELSE NoSrv]
        /\ conn = [c \in Conns |->
                     IF c = 1 THEN [NoConn EXCEPT !.st = "open", !.role = "run"]
                     ELSE [NoConn EXCEPT !.role = "off"]]
        /\ loc = [c \in Conns |-> NoLoc]
        /\ auth = None
        /\ others = {}
        /\ pending = <<>>
        /\ c2s = [c \in Conns |-> <<>>]
        /\ s2c = [c \in Conns |-> <<>>]
        /\ sent = [c \in Conns |-> <<>>]
        /\ inb = [i \in Inbounds |-> [NoInb EXCEPT !.st = "off"]]
        /\ nextId = 1
        /\ timers = [id \in Ids |-> NoTimer]
        /\ takers = [id \in Ids |-> {}]

FrameNext == \E c \in Conns : FrameSendHello(c) \/ FrameRecv(c)

FrameSpec == FrameInit /\ [][FrameNext]_vars

\* ------------------------------------------------------------------ claims
\* handler c is in drive_tunnel
InDriver(c) == srv[c].pc \in {"driver", "accept", "announce"}
\* handler c holds a registration: claim_port returned Ok(listener)
Registered(c) == srv[c].pc \in {"claimed", "driver", "accept", "announce"}
\* handler c got an Accept(id) as its first real message
Accepted(c) == conn[c].role \in {"acceptor", "rogue", "data"} /\ srv[c].id # 0
Hit(c) == Accepted(c) /\ srv[c].inbound # 0
Miss(c) == Accepted(c) /\ srv[c].inbound = 0

\* C1: at any instant at most one registration owns a subdomain: of two
\* concurrent Hellos for s one enters the tunnel driver, the other is refused.
C1_OneOwner ==
    \A c1, c2 \in Conns :
        Registered(c1) /\ Registered(c2) /\ srv[c1].subdomain = srv[c2].subdomain
            => c1 = c2

\* C2: when a handler whose port claim succeeded ends, for whatever reason,
\* its subdomain is no longer in the subdomains map.
C2_ReleasedAtEnd ==
    [][\A c \in Conns :
          Registered(c) /\ srv'[c].pc = "done"
              => srv[c].subdomain \notin DOMAIN subdomains']_vars

\* C3: for every pending id at most one take succeeds, by an Accept handler
\* or by the reaper; the handler that holds a parked socket is the only taker,
\* and the id has left the map.
C3_AtMostOneTake ==
    /\ \A id \in Ids : Cardinality(takers[id]) <= 1
    /\ \A c \in Conns :
          srv[c].pc \in {"flush", "copy"}
              => takers[srv[c].id] = {c} /\ srv[c].id \notin DOMAIN pending

\* one handler took id, a second Accept(id) found nothing, the reaper woke
\* to an empty slot
C3_Witness ==
    \E id \in Ids : \E c1, c2 \in Conns :
        /\ c1 # c2 /\ takers[id] = {c1} /\ Hit(c1) /\ srv[c1].id = id
        /\ Miss(c2) /\ srv[c2].id = id
        /\ timers[id].st = "fired"

\* C4: every entry put into pending is eventually removed, whether or not an
\* Accept comes and whether or not its tunnel is still there, and a socket is
\* parked only as long as its entry is in the map: the reaper that removes
\* the entry closes it.
C4_NoLeak ==
    /\ \A id \in Ids : (id \in DOMAIN pending) ~> (id \notin DOMAIN pending)
    /\ [](\A i \in Inbounds :
            inb[i].st = "parked" <=> \E id \in DOMAIN pending : pending[id] = i)

\* the tunnel's handler has ended, its client gone without an Accept, and the
\* reaper removed the entry
C4_Witness ==
    \E id \in Ids : \E c \in Conns :
        /\ takers[id] = {0}
        /\ conn[c].role = "registrant" /\ srv[c].id = id /\ srv[c].pc = "done"
        /\ conn[c].st = "closed"
        /\ srv[c].subdomain \notin DOMAIN subdomains

\* C5 as stated: an Accept(id) processed less than 10 s after the insert
\* finds the entry, one processed more than 10 s after it finds none, and the
\* reaper never removes an entry before 10 s.
C5_Original ==
    /\ \A c \in Conns :
          /\ Miss(c) /\ srv[c].elapsed >= 0 /\ srv[c].elapsed < REAP_SECS
                => takers[srv[c].id] # {}
          /\ Accepted(c) /\ srv[c].elapsed > REAP_SECS => Miss(c)
    /\ \A id \in Ids : timers[id].st = "fired" => Elapsed(id) >= REAP_SECS

\* C5: an Accept(id) processed less than 10 s after the insert finds the
\* entry unless an earlier Accept took it; one processed after the reaper ran
\* finds none; the reaper never runs before 10 s, and until it runs, however
\* late, an Accept still finds the entry.
C5_ReapAfterTenSeconds ==
    /\ \A c \in Conns :
          /\ Miss(c) /\ srv[c].elapsed >= 0 /\ srv[c].elapsed < REAP_SECS
                => takers[srv[c].id] # {} /\ 0 \notin takers[srv[c].id]
          /\ Hit(c) => 0 \notin takers[srv[c].id]
          /\ Miss(c) /\ srv[c].elapsed >= 0 => takers[srv[c].id] # {}
    /\ \A id \in Ids : timers[id].st = "fired" => Elapsed(id) >= REAP_SECS

\* an Accept found its entry more than 10 s after the insert, the reaper not
\* having run yet
C5_Witness ==
    \E c \in Conns : Hit(c) /\ srv[c].elapsed > REAP_SECS /\ timers[srv[c].id].st = "armed"

\* a is an initial part of b
IsPrefix(a, b) == Len(a) <= Len(b) /\ SubSeq(b, 1, Len(a)) = a

\* C6: in the accept path the bytes the codec had read past the Accept frame
\* are the first bytes written to the parked inbound socket, all of them and
\* in order: nothing is written to it before the flush, and once the copy
\* runs what the socket was sent starts with exactly those bytes.
C6_LeftoverFirst ==
    \A c \in Conns :
        /\ srv[c].pc = "flush" => inb[srv[c].inbound].tx = <<>>
        /\ srv[c].pc = "copy" => IsPrefix(Bytes(srv[c].read_buf), inb[srv[c].inbound].tx)

\* the read that found Accept also took two bytes of the data stream, and
\* the inbound peer has been sent those two, in order
C6_Witness ==
    \E c \in Conns :
        /\ srv[c].pc = "copy" /\ Len(srv[c].read_buf) = 2
        /\ inb[srv[c].inbound].tx = <<LocalByte(1), LocalByte(2)>>

\* data connection c is accepted and both its endpoints are open
PathOpen(c) ==
    /\ srv[c].pc \in {"flush", "copy"} /\ task[c].pc \in {"local", "flush", "copy"}
    /\ inb[srv[c].inbound].peer = "open" /\ loc[c].st \in {"none", "open"}

\* C7: on an accepted data connection, what each endpoint has received is an
\* initial part of what the other has written, and while both endpoints are
\* open every byte written is either delivered or still on its way, in order:
\* in a socket buffer, on the wire or in a codec's read buffer.
C7_ByteStream ==
    \A c \in Conns :
        LET i == srv[c].inbound
        IN  /\ i # 0 => /\ IsPrefix(loc[c].rx, PeerWritten(i))
                        /\ IsPrefix(inb[i].tx, LocalWritten(c))
            /\ PathOpen(c) =>
                  /\ PeerWritten(i) =
                        loc[c].rx
                            \o (IF task[c].pc = "copy" THEN <<>> ELSE Bytes(task[c].read_buf))
                            \o Bytes(s2c[c]) \o inb[i].rx
                  /\ LocalWritten(c) =
                        inb[i].tx
                            \o (IF srv[c].pc = "copy" THEN <<>> ELSE Bytes(srv[c].read_buf))
                            \o Bytes(c2s[c]) \o loc[c].tx

\* with a secret on both sides, everything either endpoint wrote has reached
\* the other and both are still open
C7_Witness ==
    \E c \in Conns :
        /\ auth # None /\ PathOpen(c)
        /\ loc[c].rx = <<PeerByte(1), PeerByte(2)>>
        /\ inb[srv[c].inbound].tx = <<LocalByte(1), LocalByte(2)>>

\* C8: with a secret configured, a handler that looked at a Hello or an
\* Accept, holds a listener or a parked socket, or put a subdomain in the map,
\* had been given the HMAC of its own challenge under the server's key.
C8_AuthFirst ==
    auth # None =>
        \A c \in Conns :
            \/ srv[c].pc \in {"idle", "start", "auth"}
            \/ srv[c].pc = "done" /\ srv[c].subdomain = "" /\ srv[c].id = 0
                  /\ srv[c].inbound = 0
            \/ srv[c].tag = HexEncode(Hmac(AuthNew(auth), c))

\* an Accept arrived on a connection that had not answered its challenge
\* while an entry was pending: the handler ended and the entry stayed
C8_Witness ==
    \E c \in Conns :
        /\ auth # None /\ srv[c].pc = "done" /\ srv[c].got = "Accept"
        /\ srv[c].id = 0 /\ pending # <<>> /\ subdomains # <<>>

AuthFailed(c) ==
    auth # None /\ srv[c].pc = "done" /\ srv[c].challenge # 0 /\ srv[c].tag = NotHex

\* C10 as stated: on every authentication failure the reason sent is
\* "invalid secret".
C10_Original == \A c \in Conns : AuthFailed(c) => srv[c].reason = InvalidSecretMsg

\* C10: on every authentication failure the server sends one Error and
\* closes, having processed nothing; the reason is "invalid secret" for a tag
\* that does not validate, "expected Authenticate message" for another message
\* or end of stream, "handshake timed out" for a timeout, "parse error" for a
\* frame that is no message, "max chunk length exceeded" for a frame that is
\* too long. The send fails only if the client has closed.
C10_ErrorThenClose ==
    \A c \in Conns :
        AuthFailed(c) =>
            /\ srv[c].reason =
                  CASE srv[c].got = "Authenticate" -> InvalidSecretMsg
                    [] srv[c].got \in {"Hello", "Accept", "eof"} -> ExpectedAuthMsg
                    [] srv[c].got = "timeout" -> TimedOutMsg
                    [] srv[c].got = "parse" -> ParseErrorMsg
                    [] srv[c].got = "toolong" -> MaxChunkMsg
            /\ srv[c].result = "ok" =>
                  sent[c] = <<Challenge(c), Error(srv[c].reason)>>
            /\ srv[c].result = "err" => conn[c].st = "closed" /\ sent[c] = <<Challenge(c)>>
            /\ srv[c].subdomain = "" /\ srv[c].id = 0 /\ srv[c].listener = 0

\* a handshake that timed out was answered with "handshake timed out"
C10_Witness ==
    \E c \in Conns :
        /\ AuthFailed(c) /\ srv[c].got = "timeout"
        /\ sent[c] = <<Challenge(c), Error(TimedOutMsg)>>

\* bytes of the payload of the Hello that the client of the byte-level run writes
PayloadLen == Len(HelloJson(cli.subdomain, cli.tcp))
\* the server's first recv on connection 1 has returned
RecvOver == srv[1].pc \in {"claim", "done"}

C12_FramesFit ==
    /\ \A i \in 1..Len(task[1].wrote) : (Len(task[1].wrote[i]) - 1) + 1 <= MAX_FRAME
    /\ \A i \in 1..Len(sent[1]) : (Len(sent[1][i]) - 1) + 1 <= MAX_FRAME

\* the server's reply to an accepted Hello is itself longer than the limit
C12_ReplyFits ==
    \A i \in 1..Len(sent[1]) : (Len(sent[1][i]) - 1) + 1 <= MAX_FRAME

\* C13: a Hello for a subdomain that is in the map ends the handler with
\* "subdomain '<s>' is already taken": that Error is sent (unless the peer is
\* gone), the handler holds no listener, and the map, the bound ports, every
\* other handler, the pending entries and the public sockets stay as they were
C13_TakenRefused ==
    [][\A c \in Conns :
        (srv[c].pc = "ready" /\ srv'[c].pc # "ready"
            /\ srv'[c].subdomain \in DOMAIN subdomains) =>
          LET s == srv'[c].subdomain
          IN  /\ srv'[c].pc = "done" /\ srv'[c].reason = TakenMsg(s)
              /\ srv'[c].listener = 0
              /\ SendOk(c) => /\ sent'[c] = Append(sent[c], Error(TakenMsg(s)))
                              /\ srv'[c].result = "ok"
              /\ subdomains' = subdomains
              /\ BoundPorts' = BoundPorts
              /\ \A d \in Conns \ {c} : srv'[d] = srv[d]
              /\ pending' = pending /\ inb' = inb /\ timers' = timers]_vars

\* a second Hello for "demo" was refused while the first registration's
\* tunnel is driven, its mapping in place
C13_Witness ==
    \E c, d \in Conns :
        /\ c # d /\ srv[c].pc = "done" /\ srv[c].reason = TakenMsg("demo")
        /\ sent[c] = <<Error(TakenMsg("demo"))>>
        /\ srv[d].pc = "accept" /\ srv[d].subdomain = "demo"
        /\ "demo" \in DOMAIN subdomains /\ subdomains["demo"] = srv[d].listener

\* C14: a claim whose 150 binds all fail ends after exactly 150 attempts with
\* "no free ports available": that Error is sent (unless the peer is gone),
\* the handler ends and the map is unchanged; and the map gets or changes an
\* entry only in the step in which a handler's bind succeeded, the entry being
\* that handler's subdomain with the port bound, free until then
C14_NoFreePorts ==
    [][/\ \A c \in Conns :
            (srv[c].pc = "claim" /\ srv'[c].pc = "done") =>
                /\ srv'[c].attempts = MAX_ATTEMPTS
                /\ srv'[c].reason = NoPortsMsg /\ srv'[c].listener = 0
                /\ SendOk(c) => /\ sent'[c] = Append(sent[c], Error(NoPortsMsg))
                                /\ srv'[c].result = "ok"
                /\ subdomains' = subdomains
       /\ \A s \in DOMAIN subdomains' :
            (s \notin DOMAIN subdomains \/ subdomains'[s] # subdomains[s]) =>
                \E c \in Conns :
                    /\ srv[c].pc = "claim" /\ srv'[c].pc = "claimed"
                    /\ srv[c].subdomain = s
                    /\ srv'[c].listener = subdomains'[s]
                    /\ subdomains'[s] \in Ports \ BoundPorts]_vars

\* a claim for "blog" failed after 150 attempts while "demo" holds a port:
\* the Error was sent and "blog" is not in the map
C14_Witness ==
    \E c \in Conns :
        /\ srv[c].pc = "done" /\ srv[c].subdomain = "blog"
        /\ srv[c].reason = NoPortsMsg /\ srv[c].attempts = MAX_ATTEMPTS
        /\ sent[c] = <<Error(NoPortsMsg)>>
        /\ DOMAIN subdomains = {"demo"}

\* C15: in the step in which a data connection's client task or its server
\* handler ends, whatever the reason, the main tunnel is untouched: the
\* registrant's handler with its listener, the client's event loop, their
\* connection and what is queued on it, the subdomains map, the pending map
\* and the reap timers are all unchanged; and in the step in which any server
\* handler ends with an error, every other handler and every other connection,
\* accepted or still to be accepted, is unchanged
C15_TunnelUnaffected ==
    [][/\ \A d \in Conns :
            (conn[d].role = "data"
                /\ \/ task[d].pc # "done" /\ task'[d].pc = "done"
                   \/ srv[d].pc # "done" /\ srv'[d].pc = "done") =>
              /\ \A c \in Conns :
                    conn[c].role = "run" =>
                        /\ srv'[c] = srv[c] /\ task'[c] = task[c]
                        /\ conn'[c] = conn[c] /\ s2c'[c] = s2c[c] /\ c2s'[c] = c2s[c]
              /\ subdomains' = subdomains /\ pending' = pending /\ timers' = timers
       /\ \A d \in Conns :
            (srv[d].pc # "done" /\ srv'[d].pc = "done" /\ srv'[d].result = "err") =>
                \A c \in Conns \ {d} : srv'[c] = srv[c] /\ conn'[c] = conn[c]]_vars

\* the data task failed to dial the local service and its handler saw the
\* copy fail, while the tunnel is registered with its mapping and listener
\* and the client's event loop receives
C15_Witness ==
    /\ task[2].pc = "done" /\ task[2].result = "err"
    /\ task[2].reason = "connection refused"
    /\ srv[2].pc = "done" /\ srv[2].result = "err"
    /\ srv[1].pc = "accept" /\ task[1].pc = "loop"
    /\ "demo" \in DOMAIN subdomains /\ subdomains["demo"] = srv[1].listener

\* C16: once the client's end of a registered tunnel's control connection is
\* closed, the driver eventually exits and its listener is dropped; and the
\* step in which a driver exits removes the subdomain from the map and frees
\* the port, so that a Hello for the subdomain passes claim_port's test again
C16_ClosedTunnelEnds ==
    /\ \A c \in Conns :
          (InDriver(c) /\ conn[c].st = "closed")
              ~> (srv[c].pc = "done" /\ srv[c].listener = 0)
    /\ [][\A c \in Conns :
            (InDriver(c) /\ srv'[c].pc = "done") =>
                /\ ~ContainsKey(subdomains', srv[c].subdomain)
                /\ srv[c].listener \notin BoundPorts']_vars

\* the first tunnel for "demo" ended after its client closed, and a later
\* registration holds "demo"
C16_Witness ==
    \E c, d \in Conns :
        /\ c # d /\ conn[c].st = "closed" /\ srv[c].pc = "done"
        /\ srv[c].subdomain = "demo" /\ srv[c].result = "ok" /\ srv[c].reason = ""
        /\ sent[c] # <<>> /\ sent[c][Len(sent[c])].type = "ServerHello"
        /\ srv[d].pc = "accept" /\ srv[d].subdomain = "demo"
        /\ ContainsKey(subdomains, "demo") /\ subdomains["demo"] = srv[d].listener

\* places of Connection(id) in what the server wrote
Announced(id) ==
    UNION {{<<c, i>> : i \in {j \in 1..Len(sent[c]) : sent[c][j] = Connection(id)}} :
           c \in Conns}

\* C17: the step that puts Connection(id) on the control channel finds id
\* inserted in pending before it (still there, or taken since by an Accept or
\* the reaper) and its reap task spawned; this stays so for every Connection
\* written; and no id is announced twice
C17_ParkArmAnnounce ==
    /\ [][\A c \in Conns : \A id \in Ids :
            (sent'[c] = Append(sent[c], Connection(id))) =>
                /\ id \in DOMAIN pending \/ takers[id] # {}
                /\ timers[id].st \in {"armed", "fired"}
                /\ Announced(id) = {}]_vars
    /\ [](\A id \in Ids :
            /\ Cardinality(Announced(id)) <= 1
            /\ Announced(id) # {} =>
                    /\ id \in DOMAIN pending \/ takers[id] # {}
                    /\ timers[id].st \in {"armed", "fired"})

\* two ids were announced before either was accepted, and the second was
\* accepted first: the first is still parked
C17_Witness ==
    \E c, d \in Conns :
        /\ sent[c] = <<ServerHello(srv[c].listener), Connection(1), Connection(2)>>
        /\ takers[2] = {d} /\ srv[d].id = 2 /\ srv[d].elapsed = 0
        /\ 1 \in DOMAIN pending /\ takers[1] = {}

\* C18: a driver that ends on a failed send, of Heartbeat or of
\* Connection(id), ends its handler with a success result; after a failed
\* send of Connection(id) the entry just inserted is still in pending, its
\* reap timer armed
C18_CleanExit ==
    [][\A c \in Conns :
        (srv[c].pc \in {"driver", "announce"} /\ srv'[c].pc = "done") =>
            /\ srv'[c].result = "ok"
            /\ srv[c].pc = "announce" =>
                    /\ pending' = pending /\ timers' = timers
                    /\ srv[c].id \in DOMAIN pending => timers[srv[c].id].st = "armed"]_vars

\* the part of C18 about the pending entry alone
C18_EntryLeft ==
    [][\A c \in Conns :
        (srv[c].pc = "announce" /\ srv'[c].pc = "done") =>
            /\ pending' = pending /\ timers' = timers
            /\ srv[c].id \in DOMAIN pending => timers[srv[c].id].st = "armed"]_vars

\* what handler c's next recv meets: buffered and arrived input, in order
Input(c) == srv[c].read_buf \o c2s[c]

\* C19: the step in which a handler leaves READY on anything but a Hello or
\* an Accept(id) with id in pending (an Authenticate, a frame that does not
\* parse or is too long, end of stream, a timeout, an Accept for an id that is
\* not pending) ends the handler and leaves the subdomains map, the pending
\* map and the public sockets unchanged, with nothing sent and no listener;
\* a Hello leads to the claim or is refused, an Accept that hits takes its
\* entry and only that
C19_ReadyFrames ==
    [][\A c \in Conns :
        (srv[c].pc = "ready" /\ srv'[c].pc # "ready") =>
          LET isHello == Input(c) # <<>> /\ Head(Input(c)).type = "Hello"
              isHit == /\ Input(c) # <<>> /\ Head(Input(c)).type = "Accept"
                       /\ Head(Input(c)).id \in DOMAIN pending
          IN  /\ subdomains' = subdomains
              /\ ~(isHello \/ isHit) =>
                    /\ srv'[c].pc = "done" /\ srv'[c].listener = 0
                    /\ srv'[c].subdomain = "" /\ srv'[c].inbound = 0
                    /\ pending' = pending /\ inb' = inb
                    /\ sent'[c] = sent[c] /\ s2c'[c] = s2c[c]
              /\ isHello => /\ srv'[c].pc \in {"claim", "done"}
                            /\ pending' = pending /\ inb' = inb
              /\ isHit => /\ srv'[c].pc = "flush"
                          /\ pending' = Del(pending, Head(Input(c)).id)]_vars

\* a peer that authenticated and then sent a frame that is too long: its
\* handler ended with the codec's error, nothing registered, nothing sent
C19_Witness ==
    \E c \in Conns :
        /\ conn[c].role = "rogue" /\ conn[c].nsent = 2
        /\ srv[c].pc = "done" /\ srv[c].got = "Authenticate"
        /\ srv[c].reason = MaxChunkMsg /\ srv[c].result = "err"
        /\ srv[c].subdomain = "" /\ srv[c].id = 0
        /\ sent[c] = <<Challenge(c)>>

\* C20: at every instant every handler that holds a registration for s finds
\* s in the subdomains map, mapped to the port of the listener it holds
C20_OwnMapping ==
    \A c \in Conns :
        Registered(c) =>
            /\ ContainsKey(subdomains, srv[c].subdomain)
            /\ subdomains[srv[c].subdomain] = srv[c].listener

\* the part of C20 about the end of a handler: a registration's mapping is
\* not removed while its handler lives
C20_RemovedAtOwnEnd ==
    [][\A c \in Conns :
        (Registered(c) /\ ContainsKey(subdomains, srv[c].subdomain)
            /\ ~ContainsKey(subdomains', srv[c].subdomain)) => srv'[c].pc = "done"]_vars

\* both sides have the same secret, or neither has one
SecretsAgree == cli.secret = auth
\* the client's run is past the registration: in its event loop, or returned
CliDecided == task[1].pc \in {"loop", "done"}
\* the handler of the client's control connection is past the registration:
\* in the tunnel driver, or returned
SrvDecided == InDriver(1) \/ srv[1].pc = "done"

\* C21: for every pair of secret settings the client's run reaches its event
\* loop or returns, and the handler of its connection, once spawned, reaches
\* the tunnel driver or returns; the client gets past the registration and a
\* Hello{public_port} is written only when the settings agree, and when they
\* do not, no subdomain is ever mapped and no listener bound
C21_SecretCombos ==
    /\ <>CliDecided
    /\ (srv[1].pc = "start") ~> SrvDecided
    /\ [](task[1].pc = "loop" => SecretsAgree)
    /\ [](~SecretsAgree =>
            /\ subdomains = <<>> /\ BoundPorts = {}
            /\ \A c \in Conns : ~Registered(c) /\ srv[c].pc # "claim"
            /\ \A c \in Conns : \A i \in 1..Len(sent[c]) : sent[c][i].type # "ServerHello")

\* a client with a secret against a server without one: each waited for the
\* other's first frame; the server's wait ran out first and the client's
\* ended on the closed connection; nothing was registered
C21_Witness ==
    /\ auth = None /\ cli.secret = "hunter2"
    /\ task[1].pc = "done" /\ task[1].result = "err"
    /\ task[1].reason = "expected Challenge from server"
    /\ srv[1].pc = "done" /\ srv[1].result = "err" /\ srv[1].reason = TimedOutMsg
    /\ subdomains = <<>>

====
